---------------------------- MODULE Spec2Model ----------------------------
(***************************************************************************)
(* Curio: the dual-channel file watcher (useFileWatcher, the composable    *)
(* whose text is kept in src/README.md lines 53-295) together with its only *)
(* caller, src/src/App.vue (loadFile, handleFileChange).                    *)
(*                                                                          *)
(* Everything runs on one JavaScript event loop.  One action of the model   *)
(* is one task of that loop: the synchronous run of a handler up to its     *)
(* next await on a real asynchronous operation (stat, read_file,            *)
(* watchImmediate, unwatchFn, setTitle).  An await on a promise that is     *)
(* already settled resumes in the microtask checkpoint of the same task, so *)
(* it is part of the same action.  The operations in flight are the bag     *)
(* ops; each is completed by its own action.                                *)
(***************************************************************************)
EXTENDS Integers, Sequences, FiniteSets, Bags, TLC

\* ------------------------------------------------------------------ bounds
MaxLoads  == 2     \* loadFile calls (each ends in one startWatching call)
MaxStops  == 1     \* stopWatching calls made by the caller itself
MaxEvents == 1     \* raw notifications the native channel delivers
MaxTicks  == 1     \* expiries of the poll interval
MaxEdits  == 1     \* changes made to the files by other programs
MaxBurst  == 3     \* raw notifications of one burst
Quantum   == 50    \* milliseconds of one step of the clock
MaxReloads == 1    \* manual reloads asked for by the user
MaxText   == 3     \* characters of a text node
MaxQuery  == 1     \* characters of a search query

\* ------------------------------------------------------- program constants
COALESCE_MS == 100
DEBOUNCE_MS == 500     \* the delay of the single-channel watcher's timer
Null        == 0       \* null: no handle, no path, no callback
NoMtime     == -1      \* fileIdentity.mtime === null

Window == (COALESCE_MS + Quantum - 1) \div Quantum   \* the window in clock steps
Debounce == (DEBOUNCE_MS + Quantum - 1) \div Quantum \* the debounce delay in clock steps

Paths    == {1, 2}
Contents == {1, 2}
RawKinds == {{"remove"}, {"create"}, {"modify"}, {}}   \* the keys of event.type
\* Every set of keys an event.type can be made of, 'access' standing for a
\* key categorizeEvent does not look at.
AnyKinds == SUBSET {"remove", "create", "modify", "access"}

Pending  == [st |-> "pending", v |-> 0]
Ok(v)    == [st |-> "ok", v |-> v]
Err      == [st |-> "err", v |-> 0]

VARIABLES
  \* useFileWatcher
  isWatching, watcherError, unwatchFn, pollingTimer, eventQueue, processTimer,
  fileIdentity, userCallback, currentFilePath,
  \* App.vue
  filePath, rawContent, rendered, appError, hasContent,
  \* the event loop and the collaborators
  timeouts,      \* armed setTimeout timers: [h, due, sub]
  intervals,     \* running setInterval handles
  subs,          \* subscriptions registered at the notification provider
  ops,           \* asynchronous operations in flight (a bag)
  fs,            \* the files: [exists, mtime, content] per path
  \* history
  phase,         \* how far each loadFile call has come, by call number
  overlapped,    \* some startWatching was called while another had not returned
  cbLog,         \* the invocations of the callback passed to startWatching
  flushLog,      \* the runs of processEventQueue on a non-empty queue
  nRenders,      \* the times handleFileChange has put new content on the screen
  did,           \* what the last step did: a set of <<tag, n>>
  arrived,       \* the raw notifications delivered so far, in order
  gap,           \* clock steps since the last raw notification (capped)
  tight,         \* every notification so far came less than a window after the one before
  nStops, nTicks, nEdits, nWrites,
  \* composables/useFileWatcher.js, the single-channel watcher, with its loop
  single,
  \* useSearch
  searchQuery, isSearchOpen, currentMatchIndex, matches, contentElement,
  searchTimeout, \* the timer of the watcher of searchQuery is armed
  doc            \* the text nodes under the content element: [text, code]

engineVars == <<isWatching, watcherError, unwatchFn, pollingTimer, eventQueue,
                processTimer, fileIdentity, userCallback, currentFilePath>>
appVars    == <<filePath, rawContent, rendered, appError, hasContent>>
loopVars   == <<timeouts, intervals, subs, ops>>
histVars   == <<phase, overlapped, cbLog, flushLog, nRenders, did>>
countVars  == <<nStops, nTicks, nEdits, nWrites>>
envVars    == <<fs, arrived, gap, tight>>
searchVars == <<searchQuery, isSearchOpen, currentMatchIndex, matches, contentElement,
                searchTimeout, doc>>
vars == <<engineVars, appVars, loopVars, histVars, countVars, envVars, single, searchVars>>

\* The state the code reads and writes, as one record.
World ==
  [isWatching |-> isWatching, watcherError |-> watcherError, unwatchFn |-> unwatchFn,
   pollingTimer |-> pollingTimer, eventQueue |-> eventQueue, processTimer |-> processTimer,
   fileIdentity |-> fileIdentity, userCallback |-> userCallback,
   currentFilePath |-> currentFilePath,
   filePath |-> filePath, rawContent |-> rawContent, rendered |-> rendered,
   appError |-> appError, hasContent |-> hasContent,
   timeouts |-> timeouts, intervals |-> intervals, subs |-> subs, ops |-> ops,
   phase |-> phase, overlapped |-> overlapped, cbLog |-> cbLog, flushLog |-> flushLog,
   nRenders |-> nRenders, did |-> {}, nEdits |-> nEdits]

Become(w) ==
  /\ isWatching' = w.isWatching /\ watcherError' = w.watcherError
  /\ unwatchFn' = w.unwatchFn /\ pollingTimer' = w.pollingTimer
  /\ eventQueue' = w.eventQueue /\ processTimer' = w.processTimer
  /\ fileIdentity' = w.fileIdentity /\ userCallback' = w.userCallback
  /\ currentFilePath' = w.currentFilePath
  /\ filePath' = w.filePath /\ rawContent' = w.rawContent /\ rendered' = w.rendered
  /\ appError' = w.appError /\ hasContent' = w.hasContent
  /\ timeouts' = w.timeouts /\ intervals' = w.intervals /\ subs' = w.subs
  /\ ops' = w.ops
  /\ phase' = w.phase /\ overlapped' = w.overlapped
  /\ cbLog' = w.cbLog /\ flushLog' = w.flushLog /\ nRenders' = w.nRenders
  /\ did' = w.did

\* ------------------------------------------------------------ the loop
Op(t, k, sub, p) == [t |-> t, k |-> k, sub |-> sub, p |-> p, r |-> Pending]
Issue(w, o)  == [w EXCEPT !.ops = @ (+) SetToBag({o})]
Retire(w, o) == [w EXCEPT !.ops = @ (-) SetToBag({o})]
Note(w, tag, n) == [w EXCEPT !.did = @ \cup {<<tag, n>>}]
Phase(w, k, ph) == [w EXCEPT !.phase[k] = ph]

clearTimeout(w, h) == [w EXCEPT !.timeouts = {t \in @ : t.h # h}]
clearInterval(w, h) == [w EXCEPT !.intervals = @ \ {h}]

\* stat(path) and read_file(path) as the file system answers them.
StatOf(p) == IF fs[p].exists THEN Ok(fs[p].mtime) ELSE Err
ReadOf(p) == IF fs[p].exists THEN Ok(fs[p].content) ELSE Err
\* The answer an operation completes with: the one taken while it was in
\* flight, or the one taken now.
Answer(o, now) == IF o.r.st = "pending" THEN now ELSE o.r

\* ------------------------------------------------------ useFileWatcher
\* log(message): the console, and invoke('write_log') inside its own try and
\* catch; sinkOk says whether the sink took the line.  Nothing of the engine
\* is read or written either way, and no caller awaits it.
log(w, sinkOk) == w

\* categorizeEvent with a class of its own for what it does not know.
categorizeEventUnknown(event) ==
  IF "remove" \in event THEN "deleted"
  ELSE IF "create" \in event THEN "created"
  ELSE IF "modify" \in event THEN "modified"
  ELSE "unknown"

categorizeEvent(event) ==
  IF "remove" \in event THEN "deleted"
  ELSE IF "create" \in event THEN "created"
  ELSE IF "modify" \in event THEN "modified"
  ELSE "modified"

\* scanEvent where a later 'deleted' does not take back hasCreateAfterDelete.
scanEventNoReset(f, evt) ==
  IF evt = "deleted" THEN [f EXCEPT !.hasDelete = TRUE]
  ELSE IF evt = "created" /\ f.hasDelete
       THEN [hasDelete |-> f.hasDelete, hasCreateAfterDelete |-> TRUE]
       ELSE f

\* scanEvent where a 'created' is not looked at.
scanEventNoCreate(f, evt) ==
  IF evt = "deleted" THEN [hasDelete |-> TRUE, hasCreateAfterDelete |-> FALSE]
  ELSE f

\* One turn of the loop of coalesceEvents over its two flags.
scanEvent(f, evt) ==
  IF evt = "deleted" THEN [hasDelete |-> TRUE, hasCreateAfterDelete |-> FALSE]
  ELSE IF evt = "created" /\ f.hasDelete
       THEN [hasDelete |-> f.hasDelete, hasCreateAfterDelete |-> TRUE]
       ELSE f

RECURSIVE scanEvents(_, _)
scanEvents(f, events) ==
  IF events = <<>> THEN f ELSE scanEvents(scanEvent(f, Head(events)), Tail(events))

coalesceFlags(events) ==
  scanEvents([hasDelete |-> FALSE, hasCreateAfterDelete |-> FALSE], events)

coalesceEvents(events) ==
  LET f == coalesceFlags(events)
  IN IF f.hasDelete /\ ~f.hasCreateAfterDelete THEN "deleted" ELSE "modified"

stopPolling(w) ==
  IF w.pollingTimer # Null
  THEN [clearInterval(w, w.pollingTimer) EXCEPT !.pollingTimer = Null]
  ELSE w

startPolling(w, k) ==
  LET w1 == stopPolling(w)
  IN [w1 EXCEPT !.pollingTimer = k, !.intervals = @ \cup {k}]

\* stopTimers that forgets the handles and cancels nothing.
stopTimersNoClear(w) == [w EXCEPT !.processTimer = Null, !.pollingTimer = Null]

\* stopWatching, lines 247-254: the coalescing timer and the poll interval.
stopTimers(w) ==
  stopPolling(IF w.processTimer # Null
              THEN [clearTimeout(w, w.processTimer) EXCEPT !.processTimer = Null]
              ELSE w)

\* stopWatching, lines 266-271, after which it returns.
resetState(w) ==
  Note([w EXCEPT !.eventQueue = <<>>, !.fileIdentity = [mtime |-> NoMtime],
                 !.userCallback = Null, !.currentFilePath = Null,
                 !.isWatching = FALSE],
       "stopReturned", 0)

\* startWatching, lines 203-215, up to its await of stat(filePath).
startWatchingBody(w, k, p) ==
  Issue(Phase([w EXCEPT !.currentFilePath = p, !.userCallback = k], k, "starting"),
        Op("startstat", k, 0, p))

\* Where the caller of stopWatching goes on: startWatching call k for path p,
\* or (k = Null) a caller that does nothing more with the engine.
afterStop(w, k, p) == IF k # Null THEN startWatchingBody(w, k, p) ELSE w

\* stopWatching up to its await of unwatchFn(), or to its end when there is
\* no subscription.
stopWatching(w, k, p) ==
  LET w1 == stopTimers(w)
  IN IF w1.unwatchFn # Null
     THEN Issue(Note(w1, "unsubscribe", w1.unwatchFn), Op("unwatch", k, w1.unwatchFn, p))
     ELSE afterStop(Note(resetState(w1), "stopSync", k), k, p)

\* stopWatching from the completion of unwatchFn() on (a rejection is caught
\* and logged, and the code goes on the same way).
stopWatchingResume(w, o) ==
  LET w1 == [Retire(w, o) EXCEPT !.subs = @ \ {o.sub}, !.unwatchFn = Null]
  IN afterStop(resetState(w1), o.k, o.p)

\* stopWatching when unwatchFn() rejects: the catch logs, and the code goes on
\* as after a success; the provider has not taken the subscription away.
stopWatchingCatch(w, o) ==
  LET w1 == [Retire(w, o) EXCEPT !.unwatchFn = Null]
  IN afterStop(resetState(Note(w1, "stopFailed", o.sub)), o.k, o.p)

\* App.vue handleFileChange up to its first await.  The read remembers in k
\* which call of the callback issued it (history only).
handleFileChange(w, type) ==
  IF type = "deleted"
  THEN stopWatching([w EXCEPT !.appError = "deleted", !.hasContent = FALSE], Null, Null)
  ELSE Issue(w, Op("read", Len(w.cbLog), 0, w.filePath))

\* userCallback({ type }): the call itself, and the handler's synchronous part.
invoke(w, type, by) ==
  handleFileChange(
    [w EXCEPT !.cbLog = Append(@, [type |-> type, cb |-> w.userCallback, by |-> by,
                                   at |-> w.nEdits])],
    type)

\* callUser that makes the call twice.
callUserTwice(w, type, by) ==
  IF w.userCallback # Null
  THEN LET w1 == invoke(w, type, by)
       IN IF w1.userCallback # Null THEN invoke(w1, type, by) ELSE w1
  ELSE w

callUser(w, type, by) == IF w.userCallback # Null THEN invoke(w, type, by) ELSE w

\* enqueueEvent where the timer that is running is not cleared.
enqueueEventNoClear(w, event, s, h) ==
  [w EXCEPT !.eventQueue = Append(@, event), !.processTimer = h,
            !.timeouts = @ \cup {[h |-> h, due |-> Window, sub |-> s]}]

enqueueEvent(w, event, s, h) ==
  LET w1 == [w EXCEPT !.eventQueue = Append(@, event)]
      w2 == IF w1.processTimer # Null THEN clearTimeout(w1, w1.processTimer) ELSE w1
  IN [w2 EXCEPT !.processTimer = h,
                !.timeouts = @ \cup {[h |-> h, due |-> Window, sub |-> s]}]

\* processEventQueue that empties the queue only when it does not await stat.
processEventQueueLateClear(w) ==
  IF w.eventQueue = <<>> THEN w
  ELSE LET events == [i \in 1..Len(w.eventQueue) |-> categorizeEvent(w.eventQueue[i])]
           action == coalesceEvents(events)
           w1 == Note([w EXCEPT !.flushLog = Append(@, [raw |-> w.eventQueue,
                                                        events |-> events,
                                                        action |-> action])],
                      "flush", Len(events))
       IN IF action # "deleted" /\ w1.currentFilePath # Null
          THEN Issue(w1, Op("flushstat", 0, w1.userCallback, w1.currentFilePath))
          ELSE callUser([w1 EXCEPT !.eventQueue = <<>>], action, "flush")

\* processEventQueue up to its await of stat, or to its end.  The operation
\* remembers in sub the session that issued it (history only).
processEventQueue(w) ==
  IF w.eventQueue = <<>> THEN w
  ELSE LET events == [i \in 1..Len(w.eventQueue) |-> categorizeEvent(w.eventQueue[i])]
           action == coalesceEvents(events)
           w1 == Note([w EXCEPT !.eventQueue = <<>>,
                                !.flushLog = Append(@, [raw |-> w.eventQueue,
                                                        events |-> events,
                                                        action |-> action])],
                      "flush", Len(events))
       IN IF action # "deleted" /\ w1.currentFilePath # Null
          THEN Issue(w1, Op("flushstat", 0, w1.userCallback, w1.currentFilePath))
          ELSE callUser(w1, action, "flush")

\* processEventQueueResume that does not keep the mtime its stat returned.
processEventQueueResumeNoStore(w, o, res) ==
  callUser(Retire(w, o), "modified", "flush")

\* processEventQueueResume that forgets the mtime when its stat fails.
processEventQueueResumeClears(w, o, res) ==
  LET w1 == Retire(w, o)
      w2 == IF res.st = "ok"
            THEN Note([w1 EXCEPT !.fileIdentity = [mtime |-> res.v]], "flushStatOk", res.v)
            ELSE [w1 EXCEPT !.fileIdentity = [mtime |-> NoMtime]]
  IN callUser(w2, "modified", "flush")

\* processEventQueue from the completion of its stat on; the action it holds
\* is 'modified', the only one that reaches the stat.
processEventQueueResume(w, o, res) ==
  LET w1 == Retire(w, o)
      w2 == IF res.st = "ok"
            THEN Note([w1 EXCEPT !.fileIdentity = [mtime |-> res.v]], "flushStatOk", res.v)
            ELSE w1
  IN callUser(w2, "modified", "flush")

\* pollForChanges up to its await of stat.  The operation remembers in k how
\* many changes the files had seen when it was issued, and in sub the session
\* that issued it (history only).
pollForChanges(w) ==
  IF w.currentFilePath = Null THEN w
  ELSE Issue(w, Op("pollstat", w.nEdits, w.userCallback, w.currentFilePath))

\* pollForChangesResume that reports a deletion whether an mtime is tracked or not.
pollForChangesResumeAnyFailure(w, o, res) ==
  LET w1 == Note(Retire(w, o), "pollStat", o.k)
  IN IF res.st = "ok"
     THEN IF w1.fileIdentity.mtime # NoMtime /\ res.v # w1.fileIdentity.mtime
          THEN callUser([w1 EXCEPT !.fileIdentity = [mtime |-> res.v]], "modified", "poll")
          ELSE w1
     ELSE callUser([w1 EXCEPT !.fileIdentity = [mtime |-> NoMtime]], "deleted", "poll")

\* pollForChangesResume that reports a deletion and keeps the mtime it had.
pollForChangesResumeKeepsIdentity(w, o, res) ==
  LET w1 == Note(Retire(w, o), "pollStat", o.k)
  IN IF res.st = "ok"
     THEN IF w1.fileIdentity.mtime # NoMtime /\ res.v # w1.fileIdentity.mtime
          THEN callUser([w1 EXCEPT !.fileIdentity = [mtime |-> res.v]], "modified", "poll")
          ELSE w1
     ELSE IF w1.fileIdentity.mtime # NoMtime
          THEN callUser(w1, "deleted", "poll")
          ELSE w1

\* pollForChangesResume that reports a change and keeps the mtime it had.
pollForChangesResumeKeepsMtime(w, o, res) ==
  LET w1 == Note(Retire(w, o), "pollStat", o.k)
  IN IF res.st = "ok"
     THEN IF w1.fileIdentity.mtime # NoMtime /\ res.v # w1.fileIdentity.mtime
          THEN callUser(w1, "modified", "poll")
          ELSE w1
     ELSE IF w1.fileIdentity.mtime # NoMtime
          THEN callUser([w1 EXCEPT !.fileIdentity = [mtime |-> NoMtime]], "deleted", "poll")
          ELSE w1

\* pollForChangesResume that takes the new mtime and tells nobody.
pollForChangesResumeSilent(w, o, res) ==
  LET w1 == Note(Retire(w, o), "pollStat", o.k)
  IN IF res.st = "ok"
     THEN IF w1.fileIdentity.mtime # NoMtime /\ res.v # w1.fileIdentity.mtime
          THEN [w1 EXCEPT !.fileIdentity = [mtime |-> res.v]]
          ELSE w1
     ELSE IF w1.fileIdentity.mtime # NoMtime
          THEN callUser([w1 EXCEPT !.fileIdentity = [mtime |-> NoMtime]], "deleted", "poll")
          ELSE w1

pollForChangesResume(w, o, res) ==
  LET w1 == Note(Retire(w, o), "pollStat", o.k)
  IN IF res.st = "ok"
     THEN IF w1.fileIdentity.mtime # NoMtime /\ res.v # w1.fileIdentity.mtime
          THEN callUser([w1 EXCEPT !.fileIdentity = [mtime |-> res.v]], "modified", "poll")
          ELSE w1
     ELSE IF w1.fileIdentity.mtime # NoMtime
          THEN callUser([w1 EXCEPT !.fileIdentity = [mtime |-> NoMtime]], "deleted", "poll")
          ELSE w1

\* userCallback({ type }) for a callback that throws before it has done
\* anything: the call is made, and nothing else.
invokeThrowing(w, type, by) ==
  [w EXCEPT !.cbLog = Append(@, [type |-> type, cb |-> w.userCallback, by |-> by,
                                 at |-> w.nEdits])]

\* pollForChanges from the completion of its stat on, with a callback that
\* throws synchronously.  The call for 'modified' stands inside the try, so
\* what it throws is caught by the catch that is meant for the stat; what the
\* call for 'deleted' throws leaves pollForChanges, whose promise nobody awaits.
pollForChangesResumeThrown(w, o, res) ==
  LET w1 == Note(Retire(w, o), "pollStat", o.k)
      catch(v) == IF v.fileIdentity.mtime # NoMtime
                  THEN LET v1 == [v EXCEPT !.fileIdentity = [mtime |-> NoMtime]]
                       IN IF v1.userCallback # Null
                          THEN invokeThrowing(v1, "deleted", "poll") ELSE v1
                  ELSE v
  IN IF res.st = "ok"
     THEN IF w1.fileIdentity.mtime # NoMtime /\ res.v # w1.fileIdentity.mtime
          THEN LET w2 == [w1 EXCEPT !.fileIdentity = [mtime |-> res.v]]
               IN IF w2.userCallback # Null
                  THEN catch(invokeThrowing(w2, "modified", "poll")) ELSE w2
          ELSE w1
     ELSE catch(w1)

\* startWatchingStat whose catch throws the failure on to the caller.
startWatchingStatRethrow(w, o, res) ==
  LET w1 == Retire(w, o)
  IN IF res.st = "ok"
     THEN Issue([w1 EXCEPT !.fileIdentity = [mtime |-> res.v]], Op("watch", o.k, 0, o.p))
     ELSE Phase([w1 EXCEPT !.watcherError = "Failed to start", !.isWatching = FALSE],
                o.k, "threw")

\* startWatching from the completion of stat(filePath) on.
startWatchingStat(w, o, res) ==
  LET w1 == Retire(w, o)
  IN IF res.st = "ok"
     THEN Issue([w1 EXCEPT !.fileIdentity = [mtime |-> res.v]], Op("watch", o.k, 0, o.p))
     ELSE Phase([w1 EXCEPT !.watcherError = "Failed to start", !.isWatching = FALSE],
                o.k, "statFailed")

\* startWatchingWatch that goes on with the poll alone when watchImmediate fails.
startWatchingWatchPollOnly(w, o, ok) ==
  LET w1 == Retire(w, o)
  IN IF ok
     THEN Phase([startPolling([w1 EXCEPT !.unwatchFn = o.k, !.subs = @ \cup {o.k}], o.k)
                   EXCEPT !.isWatching = TRUE, !.watcherError = "none"],
                o.k, "started")
     ELSE Phase([startPolling(w1, o.k) EXCEPT !.watcherError = "Failed to start",
                                             !.isWatching = FALSE],
                o.k, "watchFailed")

\* startWatchingWatch that leaves watcherError as it finds it on success.
startWatchingWatchKeepsError(w, o, ok) ==
  LET w1 == Retire(w, o)
  IN IF ok
     THEN Phase([startPolling([w1 EXCEPT !.unwatchFn = o.k, !.subs = @ \cup {o.k}], o.k)
                   EXCEPT !.isWatching = TRUE],
                o.k, "started")
     ELSE Phase([w1 EXCEPT !.watcherError = "Failed to start", !.isWatching = FALSE],
                o.k, "watchFailed")

\* startWatching from the completion of watchImmediate on.
startWatchingWatch(w, o, ok) ==
  LET w1 == Retire(w, o)
  IN IF ok
     THEN Phase([startPolling([w1 EXCEPT !.unwatchFn = o.k, !.subs = @ \cup {o.k}], o.k)
                   EXCEPT !.isWatching = TRUE, !.watcherError = "none"],
                o.k, "started")
     ELSE Phase([w1 EXCEPT !.watcherError = "Failed to start", !.isWatching = FALSE],
                o.k, "watchFailed")

\* What getWatcherStatus returns.
statusOf(w) ==
  [isWatching |-> w.isWatching, error |-> w.watcherError, filePath |-> w.currentFilePath]

\* getWatcherStatus that takes the error away once it has been read.
getWatcherStatusClears(w) ==
  Note([w EXCEPT !.watcherError = "none"], "status", statusOf(w))

\* getWatcherStatus: the value goes to the caller (kept in did), the state stays.
getWatcherStatus(w) == Note(w, "status", statusOf(w))

\* ------------------------------------------------------------- App.vue
loadFile(w, p) ==
  Issue([w EXCEPT !.appError = "", !.filePath = p, !.phase = Append(@, "loading")],
        Op("loadread", Len(w.phase) + 1, 0, p))

\* loadFile from the completion of read_file to its await of setTitle.
loadFileRead(w, o, res) ==
  LET w1 == Retire(w, o)
  IN IF res.st = "ok"
     THEN Issue([w1 EXCEPT !.hasContent = TRUE, !.rawContent = res.v, !.rendered = res.v],
                Op("settitle", o.k, 0, o.p))
     ELSE Phase([w1 EXCEPT !.appError = "Failed to read file"], o.k, "aborted")

\* loadFile from the completion of setTitle on: startWatching(path, handleFileChange),
\* which first awaits stopWatching().
loadFileWatch(w, o) ==
  LET busy == \E j \in 1..Len(w.phase) : w.phase[j] \in {"stopping", "starting"}
  IN stopWatching(Phase([Retire(w, o) EXCEPT !.overlapped = @ \/ busy], o.k, "stopping"),
                  o.k, o.p)

\* loadFile's catch.
loadFileCatch(w, k) == Note([w EXCEPT !.appError = "Failed to read file"], "threw", k)

\* loadFile after its await of startWatching, when call k has ended: the
\* notification when watcherError is set; the catch when the call threw.
loadFileDone(w, k) ==
  IF w.phase[k] = "threw" THEN loadFileCatch(w, k)
  ELSE IF w.phase[k] \in {"started", "statFailed", "watchFailed"}
       THEN Note(IF w.watcherError # "none" THEN Note(w, "notified", k) ELSE w,
                 "returned", k)
       ELSE w

\* handleFileChangeRead without the comparison with rawContent.
handleFileChangeReadNoCompare(w, o, res) ==
  LET w1 == Retire(w, o)
  IN IF res.st = "ok"
     THEN [w1 EXCEPT !.rawContent = res.v, !.rendered = res.v, !.nRenders = @ + 1]
     ELSE w1

\* handleFileChangeRead that does not keep the content it has rendered.
handleFileChangeReadNoStore(w, o, res) ==
  LET w1 == Retire(w, o)
  IN IF res.st = "ok"
     THEN IF res.v = w1.rawContent
          THEN Note(w1, "unchanged", res.v)
          ELSE [w1 EXCEPT !.rendered = res.v, !.nRenders = @ + 1]
     ELSE w1

\* handleFileChange from the completion of read_file on.
handleFileChangeRead(w, o, res) ==
  LET w1 == Retire(w, o)
  IN IF res.st = "ok"
     THEN IF res.v = w1.rawContent
          THEN Note(w1, "unchanged", res.v)
          ELSE [w1 EXCEPT !.rawContent = res.v, !.rendered = res.v, !.nRenders = @ + 1]
     ELSE w1

\* reloadCurrentFile up to its await of read_file.
reloadCurrentFile(w) ==
  IF w.filePath = Null THEN w
  ELSE Note(Issue(w, Op("reload", 0, 0, w.filePath)), "reload", w.filePath)

\* reloadCurrentFileRead that renders the content and does not keep it.
reloadCurrentFileReadNoBaseline(w, o, res) ==
  LET w1 == Retire(w, o)
  IN IF res.st = "ok"
     THEN Note([w1 EXCEPT !.rendered = res.v], "reloaded", res.v)
     ELSE [w1 EXCEPT !.appError = "Failed to reload file"]

\* reloadCurrentFile from the completion of read_file on.
reloadCurrentFileRead(w, o, res) ==
  LET w1 == Retire(w, o)
  IN IF res.st = "ok"
     THEN Note([w1 EXCEPT !.rawContent = res.v, !.rendered = res.v], "reloaded", res.v)
     ELSE [w1 EXCEPT !.appError = "Failed to reload file"]

\* ------------------------------------ composables/useFileWatcher.js
\* The single-channel watcher: one subscription and one debounce timer.  Its
\* state and its loop are the record single; k numbers the startWatching
\* calls, and the callback passed to call k is k.  An operation in flight is
\* [t, k, reg, cont]: cont is the startWatching call that awaits a
\* stopWatching, or Null when the caller awaits it.

\* watchFile(filePath, handler, options) is called.
singleWatchFile(s, k) ==
  [s EXCEPT !.ops = @ \cup {[t |-> "watch", k |-> k, reg |-> FALSE, cont |-> Null]}]

\* What follows the return of stopWatching: the rest of startWatching, or the
\* caller.
singleStopReturns(s, cont) ==
  IF cont = Null THEN [s EXCEPT !.stopReturned = TRUE]
  ELSE singleWatchFile(s, cont)

\* stopWatching up to its await of unwatchFn(), and to its end when there is
\* no unwatchFn.
singleStopWatching(s, cont) ==
  LET s1 == IF s.debounceTimer # Null
            THEN [s EXCEPT !.timeouts = {t \in @ : t.h # s.debounceTimer},
                           !.debounceTimer = Null]
            ELSE s
  IN IF s1.unwatchFn # Null
     THEN [s1 EXCEPT !.ops = @ \cup {[t |-> "unwatch", k |-> s1.unwatchFn,
                                      reg |-> TRUE, cont |-> cont]}]
     ELSE singleStopReturns([s1 EXCEPT !.isWatching = FALSE], cont)

\* stopWatching from the completion of unwatchFn() on.
singleStopWatchingResume(s, o) ==
  singleStopReturns([s EXCEPT !.ops = @ \ {o}, !.subs = @ \ {o.k},
                              !.unwatchFn = Null, !.isWatching = FALSE], o.cont)

\* startWatching(filePath, callback) up to its first await that takes time.
singleStartWatching(s) ==
  LET k == s.nStarts + 1
  IN singleStopWatching([s EXCEPT !.nStarts = k, !.stopReturned = FALSE], k)

\* startWatching from the resolution of watchFile on.
singleStartWatchingResume(s, o) ==
  [s EXCEPT !.ops = @ \ {o}, !.unwatchFn = o.k, !.isWatching = TRUE]

\* startWatching from the rejection of watchFile on.
singleStartWatchingCatch(s, o) ==
  [s EXCEPT !.ops = @ \ {o}, !.isWatching = FALSE]

\* The handler startWatching call k passes to watchFile.
singleHandler(s, k) ==
  LET h == s.nEvents + 1
      armed == IF s.debounceTimer # Null
               THEN {t \in s.timeouts : t.h # s.debounceTimer}
               ELSE s.timeouts
  IN [s EXCEPT !.timeouts = armed \cup {[h |-> h, due |-> Debounce, cb |-> k]},
               !.debounceTimer = h, !.nEvents = h, !.gap = 0]

\* The function the handler passes to setTimeout: callback(event).
singleTimer(s, t) ==
  [s EXCEPT !.timeouts = @ \ {t},
            !.calls = Append(@, [cb |-> t.cb, h |-> t.h, events |-> s.nEvents,
                                 gap |-> s.gap, stopped |-> s.stopReturned])]

\* ---------------------------------------------------------- useSearch
\* A text is a sequence of characters; 'B' is an upper-case letter, 'a' a
\* lower-case one.  The document is a paragraph and a code block.
Chars == {"a", "B"}
TextsOf(n) == UNION {[1..m -> Chars] : m \in 0..n}
Docs == {<<[text |-> t, code |-> FALSE], [text |-> u, code |-> TRUE]>> :
           t \in TextsOf(MaxText), u \in TextsOf(1)}
Queries == TextsOf(MaxQuery)

\* String.prototype.toLowerCase.
toLowerCase(t) == [i \in 1..Len(t) |-> IF t[i] = "B" THEN "b" ELSE t[i]]

\* String.prototype.indexOf(query, from): the first index, counted from 0,
\* at or after from where query occurs in text, or -1.
indexOf(text, query, from) ==
  LET at == {i \in from..Len(text) - Len(query) :
               \A j \in 1..Len(query) : text[i + j] = query[j]}
  IN IF at = {} THEN -1 ELSE CHOOSE i \in at : \A j \in at : i <= j

\* The marks the while loop of performSearch makes in one text node.
RECURSIVE marksIn(_, _, _, _)
marksIn(n, lowerText, query, lastIndex) ==
  LET index == indexOf(lowerText, query, lastIndex)
  IN IF index = -1 THEN <<>>
     ELSE <<[node |-> n, at |-> index, active |-> FALSE]>>
          \o marksIn(n, lowerText, query, index + Len(query))

\* newMatches of performSearch: the marks of the text nodes outside pre and
\* code that include the query, in document order.
RECURSIVE newMatchesFrom(_, _, _)
newMatchesFrom(d, query, n) ==
  IF n > Len(d) THEN <<>>
  ELSE (IF ~d[n].code /\ indexOf(toLowerCase(d[n].text), query, 0) # -1
        THEN marksIn(n, toLowerCase(d[n].text), query, 0)
        ELSE <<>>) \o newMatchesFrom(d, query, n + 1)

\* The % of JavaScript: the remainder has the sign of the dividend.
JsRem(a, b) == IF a >= 0 THEN a % b ELSE -((-a) % b)

\* The state of useSearch as one record.
SearchWorld ==
  [searchQuery |-> searchQuery, isSearchOpen |-> isSearchOpen,
   currentMatchIndex |-> currentMatchIndex, matches |-> matches,
   contentElement |-> contentElement, searchTimeout |-> searchTimeout, doc |-> doc]

\* The watcher of searchQuery: a change of the query arms the timer anew.
setQuery(s, q) ==
  IF q = s.searchQuery THEN s ELSE [s EXCEPT !.searchQuery = q, !.searchTimeout = TRUE]

openSearch(s) == [s EXCEPT !.isSearchOpen = TRUE]

\* clearHighlights that forgets the matches and keeps the index.
clearHighlightsKeepIndex(s) ==
  IF s.contentElement = Null THEN s
  ELSE [s EXCEPT !.matches = <<>>]

clearHighlights(s) ==
  IF s.contentElement = Null THEN s
  ELSE [s EXCEPT !.matches = <<>>, !.currentMatchIndex = 0]

closeSearch(s) == clearHighlights(setQuery([s EXCEPT !.isSearchOpen = FALSE], <<>>))

updateActiveMatch(s) ==
  LET cleared == [i \in 1..Len(s.matches) |-> [s.matches[i] EXCEPT !.active = FALSE]]
      cur == s.currentMatchIndex + 1
  IN IF Len(s.matches) > 0 /\ cur \in 1..Len(s.matches)
     THEN [s EXCEPT !.matches = [cleared EXCEPT ![cur].active = TRUE]]
     ELSE [s EXCEPT !.matches = cleared]

performSearch(s) ==
  LET s1 == clearHighlights(s)
  IN IF s1.searchQuery = <<>> \/ s1.contentElement = Null THEN s1
     ELSE LET newMatches == newMatchesFrom(s1.doc, toLowerCase(s1.searchQuery), 1)
              s2 == [s1 EXCEPT !.matches = newMatches, !.currentMatchIndex = 0]
          IN IF Len(newMatches) > 0 THEN updateActiveMatch(s2) ELSE s2

nextMatch(s) ==
  IF Len(s.matches) = 0 THEN s
  ELSE updateActiveMatch([s EXCEPT !.currentMatchIndex = JsRem(@ + 1, Len(s.matches))])

\* prevMatch that does not add the number of matches before the remainder.
prevMatchNoWrap(s) ==
  IF Len(s.matches) = 0 THEN s
  ELSE updateActiveMatch([s EXCEPT !.currentMatchIndex = JsRem(@ - 1, Len(s.matches))])

prevMatch(s) ==
  IF Len(s.matches) = 0 THEN s
  ELSE updateActiveMatch([s EXCEPT !.currentMatchIndex =
                                     JsRem(@ - 1 + Len(s.matches), Len(s.matches))])

\* ------------------------------------------------------------- actions
InFlight(t) == {o \in BagToSet(ops) : o.t = t}
\* A step of the dual-channel watcher, of App.vue or of their surroundings
\* leaves xs as it is, and the other two composables with it.
Same(xs) == UNCHANGED <<xs, single, searchVars>>

Init ==
  /\ isWatching = FALSE /\ watcherError = "none" /\ unwatchFn = Null
  /\ pollingTimer = Null /\ eventQueue = <<>> /\ processTimer = Null
  /\ fileIdentity = [mtime |-> NoMtime] /\ userCallback = Null
  /\ currentFilePath = Null
  /\ filePath = Null /\ rawContent = 0 /\ rendered = 0 /\ appError = ""
  /\ hasContent = FALSE
  /\ timeouts = {} /\ intervals = {} /\ subs = {} /\ ops = EmptyBag
  /\ fs = [p \in Paths |-> [exists |-> (p = 1), mtime |-> 0, content |-> p]]
  /\ phase = <<>> /\ overlapped = FALSE
  /\ cbLog = <<>> /\ flushLog = <<>> /\ nRenders = 0 /\ did = {}
  /\ arrived = <<>> /\ gap = Window /\ tight = TRUE
  /\ nStops = 0 /\ nTicks = 0 /\ nEdits = 0 /\ nWrites = 0
  /\ single = [isWatching |-> FALSE, unwatchFn |-> Null, debounceTimer |-> Null,
               timeouts |-> {}, subs |-> {}, ops |-> {}, calls |-> <<>>,
               stopReturned |-> FALSE, nStarts |-> 0, nStops |-> 0, nEvents |-> 0,
               gap |-> Debounce]
  /\ searchQuery = <<>> /\ isSearchOpen = FALSE /\ currentMatchIndex = 0
  /\ matches = <<>> /\ contentElement = Null /\ searchTimeout = FALSE
  /\ doc = <<>>

\* The user opens a file: loadFile(path) up to its await of read_file.
LoadFile(p) ==
  /\ Become(loadFile(World, p))
  /\ Same(<<countVars, envVars>>)

LoadFileRead ==
  \E o \in InFlight("loadread") :
    /\ Become(loadFileRead(World, o, Answer(o, ReadOf(o.p))))
    /\ Same(<<countVars, envVars>>)

LoadFileWatch ==
  \E o \in InFlight("settitle") :
    /\ Become(loadFileWatch(World, o))
    /\ Same(<<countVars, envVars>>)

\* setTitle rejects: loadFile's catch, and startWatching is never called.
LoadFileTitleFails ==
  \E o \in InFlight("settitle") :
    /\ Become(Phase([Retire(World, o) EXCEPT !.appError = "Failed to read file"],
                    o.k, "aborted"))
    /\ Same(<<countVars, envVars>>)

StartWatchingStat ==
  \E o \in InFlight("startstat") :
    /\ \E sinkOk \in BOOLEAN :
         Become(loadFileDone(log(startWatchingStat(World, o, Answer(o, StatOf(o.p))),
                                 sinkOk), o.k))
    /\ Same(<<countVars, envVars>>)

\* The provider registers the subscription before watchImmediate resolves.
Register ==
  \E o \in InFlight("watch") :
    /\ o.r.st = "pending"
    /\ Become([Issue(Retire(World, o), [o EXCEPT !.r = Ok(0)]) EXCEPT !.subs = @ \cup {o.k}])
    /\ Same(<<countVars, envVars>>)

StartWatchingWatch ==
  \E o \in InFlight("watch") :
    /\ \E sinkOk \in BOOLEAN :
         Become(loadFileDone(log(startWatchingWatch(World, o, TRUE), sinkOk), o.k))
    /\ Same(<<countVars, envVars>>)

StartWatchingWatchFails ==
  \E o \in InFlight("watch") :
    /\ o.r.st = "pending"
    /\ \E sinkOk \in BOOLEAN :
         Become(loadFileDone(log(startWatchingWatch(World, o, FALSE), sinkOk), o.k))
    /\ Same(<<countVars, envVars>>)

\* The caller stops the watcher (closeCurrentWindow, onUnmounted).
StopWatching ==
  /\ Become(stopWatching(World, Null, Null))
  /\ nStops' = nStops + 1
  /\ Same(<<nTicks, nEdits, nWrites, envVars>>)

StopWatchingResume ==
  \E o \in InFlight("unwatch") :
    /\ Become(stopWatchingResume(World, o))
    /\ Same(<<countVars, envVars>>)

\* The caller reads the status.
GetWatcherStatus ==
  /\ Become(getWatcherStatus(World))
  /\ Same(<<countVars, envVars>>)

\* unwatchFn() rejects.
StopWatchingResumeFails ==
  \E o \in InFlight("unwatch") :
    /\ \E sinkOk \in BOOLEAN : Become(log(stopWatchingCatch(World, o), sinkOk))
    /\ Same(<<countVars, envVars>>)

\* The native channel calls enqueueEvent with a raw notification.
Deliver(s, event) ==
  /\ s \in subs
  /\ Become(enqueueEvent(World, event, s, Len(arrived) + 1))
  /\ arrived' = Append(arrived, event)
  /\ gap' = 0
  /\ tight' = (tight /\ (arrived = <<>> \/ gap < Window))
  /\ Same(<<countVars, fs>>)

Fire(t) == processEventQueue(Note([World EXCEPT !.timeouts = @ \ {t}], "timerFired", t.sub))

\* One step of the clock.
Tick ==
  /\ gap < Window \/ \E t \in timeouts : t.due > 0
  /\ timeouts' = {[t EXCEPT !.due = IF @ > 0 THEN @ - 1 ELSE 0] : t \in timeouts}
  /\ gap' = IF gap < Window THEN gap + 1 ELSE gap
  /\ did' = {}
  /\ Same(<<engineVars, appVars, intervals, subs, ops, phase, overlapped, cbLog,
            flushLog, nRenders, countVars, fs, arrived, tight>>)

\* A coalescing timer that is due runs processEventQueue.
TimerFire ==
  \E t \in timeouts :
    /\ t.due = 0
    /\ Become(Fire(t))
    /\ Same(<<countVars, envVars>>)

\* The same where the clock is not followed: the window passes and the timer fires.
WindowElapses ==
  \E t \in timeouts :
    /\ Become(Fire(t))
    /\ Same(<<countVars, envVars>>)

\* The poll interval expires.
PollTick ==
  \E i \in intervals :
    /\ Become(pollForChanges(World))
    /\ nTicks' = nTicks + 1
    /\ Same(<<nStops, nEdits, nWrites, envVars>>)

PollStat ==
  \E o \in InFlight("pollstat") :
    /\ Become(pollForChangesResume(World, o, Answer(o, StatOf(o.p))))
    /\ Same(<<countVars, envVars>>)

FlushStat ==
  \E o \in InFlight("flushstat") :
    /\ Become(processEventQueueResume(World, o, Answer(o, StatOf(o.p))))
    /\ Same(<<countVars, envVars>>)

HandlerRead ==
  \E o \in InFlight("read") :
    /\ Become(handleFileChangeRead(World, o, Answer(o, ReadOf(o.p))))
    /\ Same(<<countVars, envVars>>)

\* The poll interval expires again, after the ticks that are counted, once
\* the stat of the tick before has completed.
PollTickLate ==
  \E i \in intervals :
    /\ nTicks >= MaxTicks
    /\ InFlight("pollstat") = {}
    /\ Become(pollForChanges(World))
    /\ Same(<<countVars, envVars>>)

\* The stat of a poll tick completes, and the callback throws when called.
PollStatThrows ==
  \E o \in InFlight("pollstat") :
    /\ Become(pollForChangesResumeThrown(World, o, Answer(o, StatOf(o.p))))
    /\ Same(<<countVars, envVars>>)

\* The user asks for a manual reload.
ReloadCurrentFile ==
  /\ \A o \in InFlight("reload") : CopiesIn(o, ops) < MaxReloads
  /\ Become(reloadCurrentFile(World))
  /\ Same(<<countVars, envVars>>)

ReloadRead ==
  \E o \in InFlight("reload") :
    /\ Become(reloadCurrentFileRead(World, o, Answer(o, ReadOf(o.p))))
    /\ Same(<<countVars, envVars>>)

\* A stat or a read in flight takes its answer before it completes.
Sample ==
  \E o \in BagToSet(ops) :
    /\ o.t \in {"startstat", "pollstat", "flushstat", "read", "loadread"}
    /\ o.r.st = "pending"
    /\ Become(Issue(Retire(World, o),
                    [o EXCEPT !.r = IF o.t \in {"read", "loadread"}
                                    THEN ReadOf(o.p) ELSE StatOf(o.p)]))
    /\ Same(<<countVars, envVars>>)

\* Another program changes a file.
Edit(p, f, w) ==
  /\ fs' = [fs EXCEPT ![p] = f]
  /\ nEdits' = nEdits + 1
  /\ nWrites' = nWrites + w
  /\ did' = {}
  /\ Same(<<engineVars, appVars, loopVars, phase, overlapped, cbLog, flushLog, nRenders,
            nStops, nTicks, arrived, gap, tight>>)

Write(p)  == fs[p].exists /\ Edit(p, [exists |-> TRUE, mtime |-> nEdits + 1,
                                       content |-> 3 - fs[p].content], 1)
Touch(p)  == fs[p].exists /\ Edit(p, [fs[p] EXCEPT !.mtime = nEdits + 1], 0)
Delete(p) == fs[p].exists /\ Edit(p, [fs[p] EXCEPT !.exists = FALSE], 0)
Create(p) == ~fs[p].exists /\ \E c \in Contents :
               Edit(p, [exists |-> TRUE, mtime |-> nEdits + 1, content |-> c], 1)

\* The steps of the single-channel watcher leave the rest as it is.
SingleBecomes(s) ==
  /\ single' = s
  /\ UNCHANGED <<engineVars, appVars, loopVars, histVars, countVars, envVars, searchVars>>

\* The caller calls startWatching, no call being on its way.
SingleStartWatching ==
  /\ single.ops = {} /\ single.nStarts < MaxLoads
  /\ SingleBecomes(singleStartWatching(single))

\* The provider registers the subscription of a watchFile call.
SingleRegister ==
  \E o \in single.ops :
    /\ o.t = "watch" /\ ~o.reg
    /\ SingleBecomes([single EXCEPT !.ops = (@ \ {o}) \cup {[o EXCEPT !.reg = TRUE]},
                                    !.subs = @ \cup {o.k}])

SingleStartWatchingResume ==
  \E o \in single.ops :
    /\ o.t = "watch" /\ o.reg
    /\ SingleBecomes(singleStartWatchingResume(single, o))

SingleStartWatchingCatch ==
  \E o \in single.ops :
    /\ o.t = "watch" /\ ~o.reg
    /\ SingleBecomes(singleStartWatchingCatch(single, o))

\* The caller calls stopWatching, no call being on its way.
SingleStopWatching ==
  /\ single.ops = {} /\ single.nStops < MaxStops
  /\ SingleBecomes(singleStopWatching([single EXCEPT !.nStops = @ + 1], Null))

SingleStopWatchingResume ==
  \E o \in single.ops :
    /\ o.t = "unwatch"
    /\ SingleBecomes(singleStopWatchingResume(single, o))

\* The provider delivers an event to the handler of a subscription.
SingleEvent ==
  \E k \in single.subs :
    /\ single.nEvents < MaxBurst
    /\ SingleBecomes(singleHandler(single, k))

\* One step of the clock.
SingleTick ==
  /\ single.gap < Debounce \/ \E t \in single.timeouts : t.due > 0
  /\ SingleBecomes([single EXCEPT
        !.timeouts = {[t EXCEPT !.due = IF @ > 0 THEN @ - 1 ELSE 0] : t \in @},
        !.gap = IF @ < Debounce THEN @ + 1 ELSE @])

\* A debounce timer that is due runs.
SingleTimer ==
  \E t \in single.timeouts :
    /\ t.due = 0
    /\ SingleBecomes(singleTimer(single, t))

\* The steps of useSearch leave the rest as it is.
SearchBecomes(s) ==
  /\ searchQuery' = s.searchQuery /\ isSearchOpen' = s.isSearchOpen
  /\ currentMatchIndex' = s.currentMatchIndex /\ matches' = s.matches
  /\ contentElement' = s.contentElement /\ searchTimeout' = s.searchTimeout
  /\ doc' = s.doc
  /\ UNCHANGED <<engineVars, appVars, loopVars, phase, overlapped, cbLog, flushLog,
                 nRenders, countVars, envVars, single>>

\* The step is noted with the index it started from.
Ran(tag) == did' = {<<tag, currentMatchIndex>>}

\* The content element is mounted with a rendered document, or unmounted.
ContentRef ==
  \/ /\ contentElement = Null
     /\ \E d \in Docs : SearchBecomes([SearchWorld EXCEPT !.contentElement = 1, !.doc = d])
     /\ Ran("mounted")
  \/ /\ contentElement # Null
     /\ SearchBecomes([SearchWorld EXCEPT !.contentElement = Null, !.doc = <<>>])
     /\ Ran("unmounted")

OpenSearch ==
  /\ ~isSearchOpen
  /\ SearchBecomes(openSearch(SearchWorld))
  /\ Ran("openSearch")

\* The user types in the search bar.
TypeQuery ==
  /\ isSearchOpen
  /\ \E q \in Queries : q # searchQuery /\ SearchBecomes(setQuery(SearchWorld, q))
  /\ Ran("typed")

\* The timer of the watcher of searchQuery runs performSearch.
SearchTimeout ==
  /\ searchTimeout
  /\ SearchBecomes(performSearch([SearchWorld EXCEPT !.searchTimeout = FALSE]))
  /\ Ran("performSearch")

NextMatch ==
  /\ SearchBecomes(nextMatch(SearchWorld))
  /\ Ran("nextMatch")

PrevMatch ==
  /\ SearchBecomes(prevMatch(SearchWorld))
  /\ Ran("prevMatch")

CloseSearch ==
  /\ SearchBecomes(closeSearch(SearchWorld))
  /\ Ran("closeSearch")

\* App.vue clears the highlights when the rendered content has changed.
ClearHighlights ==
  /\ SearchBecomes(clearHighlights(SearchWorld))
  /\ Ran("clearHighlights")

\* ------------------------------------------------------ specifications
\* The whole program: files are opened while others are still being opened,
\* the caller stops the watcher, both channels report, the files change.
\* Every stat and read is answered from the file system as it is when the
\* operation completes.
Next ==
  \/ Len(phase) < MaxLoads /\ \E p \in Paths : LoadFile(p)
  \/ LoadFileRead
  \/ LoadFileWatch
  \/ LoadFileTitleFails
  \/ StartWatchingStat
  \/ Register
  \/ StartWatchingWatch
  \/ StartWatchingWatchFails
  \/ nStops < MaxStops /\ StopWatching
  \/ StopWatchingResume
  \/ Len(arrived) < MaxEvents /\ \E s \in subs, e \in RawKinds : Deliver(s, e)
  \/ WindowElapses
  \/ nTicks < MaxTicks /\ PollTick
  \/ PollStat
  \/ FlushStat
  \/ HandlerRead
  \/ nEdits < MaxEdits /\ \E p \in Paths : Write(p) \/ Touch(p) \/ Delete(p) \/ Create(p)

Spec == Init /\ [][Next]_vars

\* One file is opened and watched; the native channel delivers a burst of raw
\* notifications while the clock runs.
NextBurst ==
  \/ phase = <<>> /\ LoadFile(1)
  \/ LoadFileRead
  \/ LoadFileWatch
  \/ StartWatchingStat
  \/ Register
  \/ StartWatchingWatch
  \/ Len(arrived) < MaxBurst /\ \E s \in subs, e \in RawKinds : Deliver(s, e)
  \/ Tick
  \/ TimerFire
  \/ FlushStat
  \/ HandlerRead
  \/ StopWatchingResume

SpecBurst == Init /\ [][NextBurst]_vars

\* One file is opened and watched; it is written or touched by another
\* program, the native channel reports modifications and the poll runs.
NextDetect ==
  \/ phase = <<>> /\ LoadFile(1)
  \/ LoadFileRead
  \/ LoadFileWatch
  \/ StartWatchingStat
  \/ Register
  \/ StartWatchingWatch
  \/ Len(arrived) < MaxEvents /\ \E s \in subs : Deliver(s, {"modify"})
  \/ WindowElapses
  \/ nTicks < MaxTicks /\ PollTick
  \/ PollStat
  \/ FlushStat
  \/ HandlerRead
  \/ Sample
  \/ nEdits < MaxEdits /\ (Write(1) \/ Touch(1))

SpecDetect == Init /\ [][NextDetect]_vars

\* Files are opened one after the other and the caller stops the watcher,
\* also when nothing is watched; the channel reports that the file is removed,
\* and the file is deleted.
NextStop ==
  \/ Len(phase) < MaxLoads /\ ops = EmptyBag /\ LoadFile(1)
  \/ LoadFileRead
  \/ LoadFileWatch
  \/ StartWatchingStat
  \/ Register
  \/ StartWatchingWatch
  \/ StartWatchingWatchFails
  \/ nStops < MaxStops /\ StopWatching
  \/ StopWatchingResume
  \/ StopWatchingResumeFails
  \/ GetWatcherStatus
  \/ Len(arrived) < MaxEvents /\ \E s \in subs : Deliver(s, {"remove"})
  \/ WindowElapses
  \/ nEdits < MaxEdits /\ Delete(1)

SpecStop == Init /\ [][NextStop]_vars

\* One file is opened and watched in one session; the native channel
\* reports anything, the poll runs, and the file is written, touched or deleted.
NextWatch ==
  \/ phase = <<>> /\ LoadFile(1)
  \/ LoadFileRead
  \/ LoadFileWatch
  \/ StartWatchingStat
  \/ Register
  \/ StartWatchingWatch
  \/ Len(arrived) < MaxEvents /\ \E s \in subs, e \in RawKinds : Deliver(s, e)
  \/ WindowElapses
  \/ nTicks < MaxTicks /\ PollTick
  \/ PollStat
  \/ FlushStat
  \/ HandlerRead
  \/ StopWatchingResume
  \/ nEdits < MaxEdits /\ (Write(1) \/ Touch(1) \/ Delete(1))

SpecWatch == Init /\ [][NextWatch]_vars

\* One file is opened and watched in one session that is never stopped; the
\* file is written or touched while the session is active, the native channel
\* reports nothing, or something, and the poll interval goes on for ever.
\* Every operation in flight completes, every armed timer fires, and the poll
\* interval keeps expiring.
NextLive ==
  \/ phase = <<>> /\ LoadFile(1)
  \/ LoadFileRead
  \/ LoadFileWatch
  \/ StartWatchingStat
  \/ Register
  \/ StartWatchingWatch
  \/ Len(arrived) < MaxEvents /\ \E s \in subs, e \in RawKinds \ {{"remove"}} : Deliver(s, e)
  \/ WindowElapses
  \/ nTicks < MaxTicks /\ PollTick
  \/ PollTickLate
  \/ PollStat
  \/ FlushStat
  \/ HandlerRead
  \/ Sample
  \/ nEdits < MaxEdits /\ isWatching /\ (Write(1) \/ Touch(1))

Fairness ==
  /\ WF_vars(LoadFileRead) /\ WF_vars(LoadFileWatch)
  /\ WF_vars(StartWatchingStat) /\ WF_vars(StartWatchingWatch)
  /\ WF_vars(WindowElapses)
  /\ WF_vars(nTicks < MaxTicks /\ PollTick) /\ WF_vars(PollTickLate)
  /\ WF_vars(PollStat) /\ WF_vars(FlushStat) /\ WF_vars(HandlerRead)

SpecLive == Init /\ [][NextLive]_vars /\ Fairness

\* One file is opened; its session starts or fails to start, and the caller
\* may stop it.  The file is written or deleted, the poll runs, and the user
\* asks for manual reloads at any moment.
NextReload ==
  \/ phase = <<>> /\ LoadFile(1)
  \/ LoadFileRead
  \/ LoadFileWatch
  \/ StartWatchingStat
  \/ Register
  \/ StartWatchingWatch
  \/ StartWatchingWatchFails
  \/ nStops < MaxStops /\ StopWatching
  \/ StopWatchingResume
  \/ nTicks < MaxTicks /\ PollTick
  \/ PollStat
  \/ HandlerRead
  \/ ReloadCurrentFile
  \/ ReloadRead
  \/ nEdits < MaxEdits /\ (Write(1) \/ Delete(1))

SpecReload == Init /\ [][NextReload]_vars

\* One file is opened and watched in one session with a callback that may
\* throw when the poll calls it; the file is written, touched or deleted and
\* the poll runs.
NextThrow ==
  \/ phase = <<>> /\ LoadFile(1)
  \/ LoadFileRead
  \/ LoadFileWatch
  \/ StartWatchingStat
  \/ Register
  \/ StartWatchingWatch
  \/ nTicks < MaxTicks + 1 /\ PollTick
  \/ PollStat
  \/ PollStatThrows
  \/ HandlerRead
  \/ StopWatchingResume
  \/ nEdits < MaxEdits /\ (Write(1) \/ Touch(1) \/ Delete(1))

SpecThrow == Init /\ [][NextThrow]_vars

\* One file is opened and watched in one session; the native channel delivers
\* raw notifications whose type holds any keys.
NextClassify ==
  \/ phase = <<>> /\ LoadFile(1)
  \/ LoadFileRead
  \/ LoadFileWatch
  \/ StartWatchingStat
  \/ Register
  \/ StartWatchingWatch
  \/ Len(arrived) < MaxEvents + 1 /\ \E s \in subs, e \in AnyKinds : Deliver(s, e)
  \/ WindowElapses
  \/ FlushStat
  \/ HandlerRead
  \/ StopWatchingResume

SpecClassify == Init /\ [][NextClassify]_vars

\* One file is opened and watched in one session; the file is deleted or
\* touched, the native channel reports that it is removed, or nothing, and
\* the poll runs, a tick also while the stat of the tick before is in flight.
NextVanish ==
  \/ phase = <<>> /\ LoadFile(1)
  \/ LoadFileRead
  \/ LoadFileWatch
  \/ StartWatchingStat
  \/ Register
  \/ StartWatchingWatch
  \/ Len(arrived) < MaxEvents /\ \E s \in subs : Deliver(s, {"remove"})
  \/ WindowElapses
  \/ nTicks < MaxTicks + 1 /\ PollTick
  \/ PollStat
  \/ HandlerRead
  \/ StopWatchingResume
  \/ nEdits < MaxEdits /\ (Touch(1) \/ Delete(1))

SpecVanish == Init /\ [][NextVanish]_vars

\* The same as SpecWatch, where every unwatchFn() in flight completes and every armed
\* timer fires.
SpecGone ==
  Init /\ [][NextWatch]_vars /\ WF_vars(StopWatchingResume) /\ WF_vars(WindowElapses)

\* One file is opened and watched in one session to which the native channel
\* delivers nothing; the file is written or touched and the poll runs, a tick
\* also while the stat of the tick before is in flight.
NextPoll ==
  \/ phase = <<>> /\ LoadFile(1)
  \/ LoadFileRead
  \/ LoadFileWatch
  \/ StartWatchingStat
  \/ Register
  \/ StartWatchingWatch
  \/ nTicks < MaxTicks + 1 /\ PollTick
  \/ PollTickLate
  \/ PollStat
  \/ HandlerRead
  \/ Sample
  \/ nEdits < MaxEdits /\ isWatching /\ (Write(1) \/ Touch(1))

SpecPoll == Init /\ [][NextPoll]_vars

\* The single-channel watcher: sessions started and stopped one call after
\* the other, events delivered while a subscription is registered, the clock.
NextSingle ==
  \/ SingleStartWatching
  \/ SingleRegister
  \/ SingleStartWatchingResume
  \/ SingleStartWatchingCatch
  \/ SingleStopWatching
  \/ SingleStopWatchingResume
  \/ SingleEvent
  \/ SingleTick
  \/ SingleTimer

SpecSingle == Init /\ [][NextSingle]_vars

\* The search bar: the content is mounted and unmounted, the user opens the
\* bar, types, steps through the matches and closes the bar.
NextSearch ==
  \/ ContentRef
  \/ OpenSearch
  \/ TypeQuery
  \/ SearchTimeout
  \/ NextMatch
  \/ PrevMatch
  \/ CloseSearch
  \/ ClearHighlights

SpecSearch == Init /\ [][NextSearch]_vars

\* ---------------------------------------------------------------- claims
Flushed(n) == <<"flush", n>> \in did
FlushDone == flushLog # <<>> /\ InFlight("flushstat") = {}
Modify3 == <<{"modify"}, {"modify"}, {"modify"}>>
RemoveCreate == <<{"remove"}, {"create"}>>

\* C1: trailing debounce.  Every raw notification re-arms the one coalescing
\* timer for a full window, processEventQueue only runs after a whole window
\* without notifications, and while every notification has come less than a
\* window after the one before (tight), there is at most one flush, it has seen
\* every notification in the order of arrival, and the callback has been
\* invoked at most once, exactly once when the flush has finished, with the
\* flush's net action; three 'modify' give {type:'modified'}, and 'remove' then
\* 'create' give {type:'modified'}.
C1_TrailingDebounce ==
  /\ (arrived # <<>> /\ gap < Window) =>
        /\ Cardinality(timeouts) = 1
        /\ \A t \in timeouts : t.h = processTimer /\ t.due = Window - gap
  /\ \A n \in 1..MaxBurst + 1 : Flushed(n) => gap = Window
  /\ tight =>
        /\ Len(flushLog) <= 1 /\ Len(cbLog) <= 1
        /\ flushLog # <<>> => flushLog[1].raw = arrived /\ eventQueue = <<>>
        /\ FlushDone =>
              /\ Len(cbLog) = 1
              /\ cbLog[1].type = flushLog[1].action /\ cbLog[1].by = "flush"
              /\ arrived \in {Modify3, RemoveCreate} => cbLog[1].type = "modified"

C1_Witness ==
  tight /\ arrived = Modify3 /\ FlushDone /\ Len(cbLog) = 1

\* A 'deleted' of the sequence that no later 'created' follows.
DeletedStands(events) ==
  \E i \in 1..Len(events) :
    events[i] = "deleted" /\ \A j \in i + 1..Len(events) : events[j] # "created"
\* Some 'deleted' of the sequence with a 'created' somewhere after it.
DeletedThenCreated(events) ==
  \E i \in 1..Len(events) :
    events[i] = "deleted" /\ \E j \in i + 1..Len(events) : events[j] = "created"
\* A 'created' after the last 'deleted' of the sequence.
CreatedAfterLastDeleted(events) ==
  \E j \in 1..Len(events) :
    /\ events[j] = "created"
    /\ \E i \in 1..j - 1 : events[i] = "deleted"
    /\ \A i \in j + 1..Len(events) : events[i] # "deleted"

\* C2, as claimed: a flush whose events hold a 'deleted' with a 'created'
\* somewhere later has the net action 'modified'.
C2_AsClaimed ==
  \A i \in 1..Len(flushLog) :
    DeletedThenCreated(flushLog[i].events) => flushLog[i].action = "modified"

\* C2, amended: a flush whose events hold a 'created' after their last
\* 'deleted' has the net action 'modified', never 'deleted'.
C2_RecreatedIsModified ==
  \A i \in 1..Len(flushLog) :
    CreatedAfterLastDeleted(flushLog[i].events) => flushLog[i].action = "modified"

C2_Witness ==
  \E i \in 1..Len(flushLog) :
    /\ flushLog[i].events = <<"deleted", "modified", "created">>
    /\ flushLog[i].action = "modified"

\* C3: the net action of a flush is 'deleted' exactly when its events hold a
\* 'deleted' that no later 'created' follows, and 'modified' for every other
\* sequence; the two flags of the scan say the same.
C3_DeletedIffStands ==
  \A i \in 1..Len(flushLog) :
    LET e == flushLog[i]
        f == coalesceFlags(e.events)
    IN /\ e.action \in {"modified", "deleted"}
       /\ e.action = "deleted" <=> DeletedStands(e.events)
       /\ (f.hasDelete /\ ~f.hasCreateAfterDelete) <=> DeletedStands(e.events)

C3_Witness ==
  \E i \in 1..Len(flushLog) :
    /\ flushLog[i].events = <<"deleted", "created", "deleted">>
    /\ flushLog[i].action = "deleted"

AllAfterEdit == \A i \in 1..Len(cbLog) : cbLog[i].at = 1
ModifiedCalls == {i \in 1..Len(cbLog) : cbLog[i].type = "modified"}

\* C4, as claimed: while the content of the file is the content last
\* delivered, the callback given to startWatching is not invoked with
\* {type:'modified'}.
C4_AsClaimed ==
  nWrites = 0 => ModifiedCalls = {}

\* C4, amended: the engine does invoke the callback for a 'modified' net
\* action whose content is identical; it is handleFileChange that re-reads the
\* file and, when the content equals rawContent, leaves rawContent and the
\* rendered content as they are, so that a file whose content never changed is
\* never re-rendered; and the stat of the flush has by then put the mtime it
\* observed into fileIdentity.
C4_DedupInHandler ==
  /\ nWrites = 0 => nRenders = 0 /\ rendered = rawContent
  /\ \A c \in Contents : <<"unchanged", c>> \in did => rawContent = c /\ rendered = c
  /\ \A m \in 0..MaxEdits + 1 :
       <<"flushStatOk", m>> \in did =>
          /\ fileIdentity.mtime = m
          /\ userCallback # Null =>
                cbLog # <<>> /\ cbLog[Len(cbLog)].type = "modified"

C4_Witness ==
  /\ nEdits = 1 /\ nWrites = 0 /\ flushLog # <<>>
  /\ <<"unchanged", rawContent>> \in did
  /\ cbLog # <<>> /\ AllAfterEdit
  /\ fileIdentity.mtime = fs[1].mtime /\ fs[1].mtime = 1
  /\ nRenders = 0

\* C5, as claimed: a single edit that both the flush and the poll detect
\* invokes the callback with {type:'modified'} at most once.
C5_AsClaimed ==
  (nEdits = 1 /\ AllAfterEdit) => Cardinality(ModifiedCalls) <= 1

\* C5, amended: when the flush and the poll both detect the same single edit,
\* the callback can be invoked by each of them, but the content is updated at
\* most once, and not at all when the edit left the content as it was.
C5_OneContentUpdate ==
  (nEdits = 1 /\ AllAfterEdit) => nRenders <= nWrites

C5_Witness ==
  /\ nEdits = 1 /\ nWrites = 1 /\ AllAfterEdit
  /\ Len(cbLog) = 2 /\ cbLog[1].by = "poll" /\ cbLog[2].by = "flush"
  /\ InFlight("read") = {} /\ nRenders = 1 /\ rawContent = fs[1].content

Begun(k) == phase[k] \in {"starting", "started", "statFailed", "watchFailed"}

\* C6: with one startWatching at a time and no other stop, once a later
\* startWatching has begun its own work no coalescing timer armed by an earlier
\* session's subscription fires, and when the second start has completed there
\* are exactly its subscription and its poll interval.
C6_AsClaimed ==
  (~overlapped /\ nStops = 0) =>
    /\ \A s \in 1..MaxLoads :
         <<"timerFired", s>> \in did =>
            \A k \in s + 1..Len(phase) : ~Begun(k)
    /\ (Len(phase) = 2 /\ phase[1] = "started" /\ phase[2] = "started") =>
          subs = {2} /\ intervals = {2}

\* C7: in every reachable state there is at most one native subscription
\* that has not been unsubscribed and at most one poll interval.
C7_AsClaimed ==
  Cardinality(subs) <= 1 /\ Cardinality(intervals) <= 1

\* No startWatching is on its way.
NoStartPending ==
  \A k \in 1..Len(phase) : phase[k] \in {"started", "statFailed", "watchFailed", "aborted"}

\* C8: when stopWatching returns, called on a session whose start had
\* completed, no coalescing timer is pending, no poll interval is running and
\* the session's subscription is gone.
C8_AsClaimed ==
  (NoStartPending /\ <<"stopReturned", 0>> \in did) =>
    timeouts = {} /\ intervals = {} /\ subs = {}

\* The state stopWatching leaves.
Stopped ==
  /\ isWatching = FALSE /\ unwatchFn = Null
  /\ processTimer = Null /\ pollingTimer = Null /\ timeouts = {} /\ intervals = {}
  /\ eventQueue = <<>> /\ fileIdentity.mtime = NoMtime
  /\ currentFilePath = Null /\ userCallback = Null

\* C9: stopWatching called while there is no subscription (never started,
\* after a failed start, a second time after a completed stop) calls no
\* unsubscribe and leaves the state a stop leaves: isWatching false, no timer,
\* no poll interval, empty queue, no mtime, no path, no callback.
C9_StopWithNoSession ==
  <<"stopSync", Null>> \in did =>
    /\ Stopped
    /\ \A s \in 1..MaxLoads + 1 : <<"unsubscribe", s>> \notin did

C9_Witness ==
  /\ <<"stopSync", Null>> \in did /\ <<"flush", 1>> \notin did
  /\ phase = <<"started">> /\ nStops = 1 /\ Len(cbLog) = 1
  /\ subs = {} /\ ops = EmptyBag

\* C10: with one startWatching at a time, a startWatching whose initial stat
\* failed never has its callback invoked, and no subscription or poll interval
\* of that call exists.
C10_AsClaimed ==
  ~overlapped =>
    \A k \in 1..Len(phase) :
      phase[k] = "statFailed" =>
        /\ \A i \in 1..Len(cbLog) : cbLog[i].cb # k
        /\ k \notin subs /\ k \notin intervals

\* The last startWatching call has ended in the given phase.
LastEnded(ph) == phase # <<>> /\ phase[Len(phase)] = ph

\* C11: when the initial stat succeeded and watchImmediate failed, the call
\* leaves isWatching false and watcherError set, the poll interval is not
\* started and the call holds no subscription: there is no poll-only operation.
C11_RegistrationFailure ==
  /\ LastEnded("watchFailed") =>
        /\ isWatching = FALSE /\ watcherError = "Failed to start"
        /\ intervals = {} /\ pollingTimer = Null
        /\ unwatchFn = Null
        /\ InFlight("pollstat") = {}
  /\ \A k \in 1..Len(phase) :
       phase[k] = "watchFailed" => k \notin intervals /\ k \notin subs

C11_Witness ==
  /\ phase = <<"started", "watchFailed">>
  /\ watcherError = "Failed to start" /\ fileIdentity.mtime # NoMtime
  /\ currentFilePath = 1 /\ ops = EmptyBag

Failed(k) == phase[k] \in {"statFailed", "watchFailed"}

\* C12: startWatching and stopWatching never throw to their caller, whatever
\* stat, watchImmediate, unwatchFn() and the log sink do.  No call ends by
\* throwing; loadFile goes on after every startWatching, with the failure of
\* the call in watcherError and in nothing else; stopWatching whose
\* unwatchFn() rejected returns with the state it always leaves; and the log
\* changes nothing whether its sink fails or not.
C12_NeverThrows ==
  /\ \A k \in 1..Len(phase) :
       /\ phase[k] # "threw" /\ <<"threw", k>> \notin did
       /\ <<"returned", k>> \in did =>
             /\ Failed(k) <=> watcherError = "Failed to start"
             /\ Failed(k) <=> <<"notified", k>> \in did
             /\ appError # "Failed to read file"
             /\ Failed(k) => isWatching = FALSE
  /\ \A s \in 1..MaxLoads + 1 :
       <<"stopFailed", s>> \in did =>
          /\ <<"stopReturned", 0>> \in did /\ unwatchFn = Null
          /\ eventQueue = <<>> /\ fileIdentity.mtime = NoMtime
          /\ isWatching = FALSE
  /\ \A sinkOk \in BOOLEAN : log(World, sinkOk) = World

C12_Witness ==
  /\ phase = <<"started", "statFailed">> /\ <<"returned", 2>> \in did
  /\ <<"notified", 2>> \in did /\ watcherError = "Failed to start"

\* C13: a step in which getWatcherStatus returns gives the caller the values
\* isWatching, watcherError and currentFilePath have, and changes no variable
\* of the engine, of the caller or of the event loop.
C13_PureRead ==
  [][(\E r \in did' : r[1] = "status") =>
       /\ did' = {<<"status", [isWatching |-> isWatching, error |-> watcherError,
                               filePath |-> currentFilePath]>>}
       /\ UNCHANGED <<engineVars, appVars, loopVars>>]_vars

C13_Witness ==
  did = {<<"status", [isWatching |-> FALSE, error |-> "Failed to start", filePath |-> 1]>>}

CallsBy(by) == {i \in 1..Len(cbLog) : cbLog[i].by = by}

\* C14: every invocation of the callback carries 'modified' or 'deleted' and
\* nothing else, a flush carries its own net action, and there are never more
\* invocations by flushes than flushes, nor more by the poll than poll ticks.
C14_TypesAndOncePerAction ==
  /\ \A i \in 1..Len(cbLog) : cbLog[i].type \in {"modified", "deleted"}
  /\ \A i \in 1..Len(cbLog) : cbLog[i].by \in {"flush", "poll"}
  /\ Cardinality(CallsBy("flush")) <= Len(flushLog)
  /\ Cardinality(CallsBy("poll")) <= nTicks
  /\ \A i \in CallsBy("flush") :
       \E j \in 1..Len(flushLog) : flushLog[j].action = cbLog[i].type

C14_Witness ==
  /\ Len(cbLog) = 2 /\ cbLog[1].by = "flush" /\ cbLog[2].by = "poll"
  /\ flushLog[1].events = <<"created">> /\ cbLog[1].type = "modified"

DeletedCalls == {i \in 1..Len(cbLog) : cbLog[i].type = "deleted"}

\* C15: for one deletion of the watched file within a session, the callback
\* is called with 'deleted' no more than once, whether the deletion is seen
\* by a flush, by a poll tick, or by both.
C15_AsClaimed ==
  (Len(phase) = 1 /\ \A i \in DeletedCalls : ~fs[1].exists /\ cbLog[i].at = nEdits)
    => Cardinality(DeletedCalls) <= 1

\* C16: the net effect is eventually reflected.  When the file has stopped
\* changing and the session goes on, the content the caller holds is, from
\* some moment on, the content of the file.
C16_AsClaimed == <>[](isWatching => rawContent = fs[1].content)

Ended ==
  /\ ~isWatching /\ unwatchFn = Null /\ userCallback = Null
  /\ timeouts = {} /\ intervals = {} /\ subs = {}

\* C18: a 'deleted' given to the callback ends the session.  From the call
\* on the poll interval is gone, and the session comes to rest stopped
\* (isWatching false, no timer armed, no interval, no subscription) and
\* stays so: nothing starts it again.
C18_AsClaimed ==
  /\ [](DeletedCalls # {} => intervals = {} /\ pollingTimer = Null)
  /\ [](DeletedCalls # {} => <>[]Ended)

\* The calls of the unsubscribe function of subscription s that have not
\* completed.
Unwatching(s) == {o \in InFlight("unwatch") : o.sub = s}

\* C19: the unsubscribe function of a registered subscription is called
\* exactly once.  Never twice: no second call is made while one is in
\* flight (after its completion unwatchFn is null, so there is no later one).
\* Never zero times: when no startWatching and no stopWatching is on its way
\* and the watcher holds no unsubscribe function, no subscription is left.
C19_AsClaimed ==
  /\ \A s \in 1..MaxLoads + 1 :
       /\ Cardinality(Unwatching(s)) <= 1
       /\ \A o \in Unwatching(s) : CopiesIn(o, ops) <= 1
  /\ (NoStartPending /\ InFlight("unwatch") = {} /\ unwatchFn = Null) => subs = {}

\* C20: the callback never runs concurrently with itself.  At no moment are
\* two invocations of handleFileChange suspended at their read_file: a second
\* one does not begin while the read of an earlier one is in flight.
C20_AsClaimed ==
  /\ Cardinality(InFlight("read")) <= 1
  /\ \A o \in InFlight("read") : CopiesIn(o, ops) <= 1

\* C21: the outcome of a startWatching call.  When call k returns, it has
\* ended with isWatching true and no watcherError exactly when its stat and
\* its registration both succeeded (then it holds the subscription and the
\* poll interval), also after an earlier call that had left an error; it has
\* ended with isWatching false and watcherError set otherwise, and a failed
\* stat is the stat of a file that is not there.
C21_StartOutcome ==
  \A k \in 1..Len(phase) :
    <<"returned", k>> \in did =>
      /\ phase[k] \in {"started", "statFailed", "watchFailed"}
      /\ phase[k] = "started" =>
           /\ isWatching /\ watcherError = "none"
           /\ unwatchFn = k /\ k \in subs /\ pollingTimer = k /\ k \in intervals
      /\ phase[k] # "started" => ~isWatching /\ watcherError # "none" /\ k \notin subs
      /\ phase[k] = "statFailed" => ~fs[1].exists

C21_Witness ==
  /\ phase = <<"watchFailed", "started">> /\ <<"returned", 2>> \in did
  /\ isWatching /\ watcherError = "none"

\* This step is the completion of the stat of poll tick o.
PollDone(o) ==
  /\ o \in InFlight("pollstat")
  /\ CopiesIn(o, ops') = CopiesIn(o, ops) - 1
  /\ \E r \in did' : r[1] = "pollStat"

\* What the callback's log holds after one more call made by the poll.
PollCalled(type) ==
  IF userCallback # Null
  THEN Append(cbLog, [type |-> type, cb |-> userCallback, by |-> "poll", at |-> nEdits])
  ELSE cbLog

PollDeletedCalls == {i \in CallsBy("poll") : cbLog[i].type = "deleted"}

\* C23: poll tick, deletion case.  When the stat of a tick fails and an mtime
\* is tracked, the tick calls the callback (when one is set) once with
\* 'deleted' and clears the tracked mtime; a tick whose stat fails after the
\* poll has reported the deletion calls nothing.
C23_PollDeletion ==
  [][\A o \in InFlight("pollstat") :
       LET res == Answer(o, StatOf(o.p))
       IN (PollDone(o) /\ res.st = "err") =>
            /\ fileIdentity.mtime # NoMtime =>
                 /\ fileIdentity'.mtime = NoMtime
                 /\ cbLog' = PollCalled("deleted")
                 /\ flushLog' = flushLog
            /\ PollDeletedCalls # {} => cbLog' = cbLog]_vars

C23_Witness ==
  /\ \E r \in did : r[1] = "pollStat"
  /\ nTicks = 2 /\ InFlight("pollstat") = {}
  /\ Len(cbLog) = 1 /\ cbLog[1].by = "poll" /\ cbLog[1].type = "deleted"
  /\ fileIdentity.mtime = NoMtime /\ InFlight("unwatch") # {}

\* C24: poll tick, no-identity case.  When the stat of a tick fails and no
\* mtime is tracked, the tick calls no callback and changes nothing of the
\* watcher or of the app.
C24_PollNoIdentity ==
  [][\A o \in InFlight("pollstat") :
       (PollDone(o) /\ Answer(o, StatOf(o.p)).st = "err" /\ fileIdentity.mtime = NoMtime)
         => UNCHANGED <<engineVars, appVars, timeouts, intervals, subs, cbLog, flushLog>>]_vars

C24_Witness ==
  /\ \E r \in did : r[1] = "pollStat"
  /\ ~fs[1].exists /\ ~isWatching /\ InFlight("unwatch") = {}
  /\ Len(cbLog) = 1 /\ cbLog[1].by = "flush" /\ cbLog[1].type = "deleted"

\* C25: whenever the callback is called with 'deleted', by a flush or by a
\* poll tick, no mtime is tracked any more when the call has been made.
C25_AsClaimed ==
  [][(Len(cbLog') = Len(cbLog) + 1 /\ cbLog'[Len(cbLog')].type = "deleted")
       => fileIdentity'.mtime = NoMtime]_vars

\* The raw notifications the first n flushes took, in order.
RECURSIVE FlushedRaw(_)
FlushedRaw(n) == IF n = 0 THEN <<>> ELSE FlushedRaw(n - 1) \o flushLog[n].raw

\* C26: classification is total and fail-open.  Every raw notification a
\* flush takes is given exactly one class: 'deleted' when its type holds
\* remove, else 'created' when it holds create, else 'modified' (also when
\* it holds nothing the classifier knows); and while the session has not been
\* stopped, the notifications delivered are those the flushes have taken
\* followed by those waiting in the queue, none missing.
C26_Classification ==
  /\ \A j \in 1..Len(flushLog) :
       /\ Len(flushLog[j].events) = Len(flushLog[j].raw)
       /\ \A i \in 1..Len(flushLog[j].raw) :
            LET r == flushLog[j].raw[i]
                e == flushLog[j].events[i]
            IN /\ e \in {"deleted", "created", "modified"}
               /\ "remove" \in r => e = "deleted"
               /\ ("remove" \notin r /\ "create" \in r) => e = "created"
               /\ ("remove" \notin r /\ "create" \notin r) => e = "modified"
  /\ DeletedCalls = {} => FlushedRaw(Len(flushLog)) \o eventQueue = arrived

C26_Witness ==
  /\ Len(flushLog) = 1 /\ flushLog[1].raw = <<{"access"}, {"create", "modify"}>>
  /\ flushLog[1].events = <<"modified", "created">>
  /\ Len(cbLog) = 1 /\ cbLog[1].type = "modified"

\* C27: a flush is atomic.  A flush leaves the queue empty in the step in
\* which it takes the events; events that wait in the queue (also those that
\* came while a flush was awaiting its stat) have the coalescing timer armed
\* for them; and while the session has not been stopped every notification
\* delivered is in exactly one flush or still in the queue, in the order of
\* arrival.
C27_FlushAtomicity ==
  /\ \A n \in 1..MaxBurst + 1 : Flushed(n) => eventQueue = <<>>
  /\ eventQueue # <<>> => \E t \in timeouts : t.h = processTimer
  /\ DeletedCalls = {} =>
       /\ Len(FlushedRaw(Len(flushLog))) + Len(eventQueue) = Len(arrived)
       /\ \A i \in 1..Len(arrived) :
            arrived[i] = (FlushedRaw(Len(flushLog)) \o eventQueue)[i]

C27_Witness ==
  /\ Len(flushLog) = 2 /\ Len(arrived) = 2 /\ DeletedCalls = {}
  /\ \E o \in InFlight("flushstat") : CopiesIn(o, ops) = 2

\* This step is the completion of operation o (and not the step in which
\* o takes its answer, after which it is in flight still).
Completes(o) ==
  /\ o \in BagToSet(ops)
  /\ CopiesIn(o, ops') = CopiesIn(o, ops) - 1
  /\ \A q \in BagToSet(ops') : q.t = o.t => CopiesIn(q, ops') <= CopiesIn(q, ops)

\* C28: an mtime is tracked only as the result of a stat that succeeded.
\* A step that gives fileIdentity a new mtime is the completion of a stat, of
\* the start, of a flush or of a poll tick, that returned this mtime; a flush
\* whose net action is 'deleted' issues no stat and gives no new mtime; a
\* flush whose stat fails leaves the mtime as it was.
C28_IdentityFromStat ==
  [][/\ (fileIdentity'.mtime # fileIdentity.mtime /\ fileIdentity'.mtime # NoMtime) =>
          \E o \in BagToSet(ops) :
            /\ o.t \in {"startstat", "flushstat", "pollstat"}
            /\ Completes(o)
            /\ Answer(o, StatOf(o.p)) = Ok(fileIdentity'.mtime)
     /\ (Len(flushLog') = Len(flushLog) + 1
           /\ flushLog'[Len(flushLog')].action = "deleted") =>
          /\ fileIdentity'.mtime \in {fileIdentity.mtime, NoMtime}
          /\ \A o \in BagToSet(ops') :
               o.t \in {"startstat", "flushstat", "pollstat"} =>
                  CopiesIn(o, ops') = CopiesIn(o, ops)
     /\ \A o \in InFlight("flushstat") :
          (Completes(o) /\ Answer(o, StatOf(o.p)).st = "err") =>
             fileIdentity'.mtime = fileIdentity.mtime]_vars

C28_Witness ==
  /\ ~fs[1].exists /\ fileIdentity.mtime = 0 /\ InFlight("flushstat") = {}
  /\ Len(flushLog) = 1 /\ flushLog[1].action = "modified"
  /\ Len(cbLog) = 1 /\ cbLog[1].by = "flush" /\ cbLog[1].at = 1

\* C29: after a flush with net action 'modified' whose stat succeeds, the
\* mtime tracked is the mtime that stat returned; and a poll tick whose stat
\* returns the mtime that is tracked calls nothing.
C29_FlushTracksMtime ==
  [][/\ \A o \in InFlight("flushstat") :
          (Completes(o) /\ Answer(o, StatOf(o.p)).st = "ok") =>
             /\ fileIdentity'.mtime = Answer(o, StatOf(o.p)).v
             /\ userCallback # Null =>
                  /\ Len(cbLog') = Len(cbLog) + 1
                  /\ cbLog'[Len(cbLog')].type = "modified"
     /\ \A o \in InFlight("pollstat") :
          (PollDone(o) /\ Answer(o, StatOf(o.p)) = Ok(fileIdentity.mtime)) =>
             cbLog' = cbLog /\ fileIdentity' = fileIdentity]_vars

C29_Witness ==
  /\ nWrites = 1 /\ nTicks = 1 /\ <<"pollStat", 1>> \in did
  /\ fileIdentity.mtime = 1 /\ fs[1].mtime = 1
  /\ Len(cbLog) = 1 /\ cbLog[1].by = "flush" /\ cbLog[1].at = 1

\* C30: sessions are isolated across asynchronous completions.  When the
\* stat of a flush or of a poll tick completes while the session is another
\* one than the session that issued it (no startWatching having been called
\* while another had not returned), the completion calls no callback and
\* leaves the identity alone.
C30_AsClaimed ==
  [][\A o \in InFlight("flushstat") \cup InFlight("pollstat") :
       (Completes(o) /\ ~overlapped /\ userCallback # Null /\ o.sub # userCallback) =>
          cbLog' = cbLog /\ fileIdentity' = fileIdentity]_vars

\* C31: a poll tick calls the callback with 'deleted', and clears the
\* identity, only if its stat failed, also when the callback throws.
C31_AsClaimed ==
  [][\A o \in InFlight("pollstat") :
       (PollDone(o) /\ Answer(o, StatOf(o.p)).st = "ok") =>
          /\ \A i \in Len(cbLog) + 1..Len(cbLog') : cbLog'[i].type # "deleted"
          /\ fileIdentity.mtime # NoMtime => fileIdentity'.mtime # NoMtime]_vars

\* C32: the health status agrees with the resources.  In every state in
\* which no startWatching and no stopWatching is on its way, isWatching is
\* true exactly when a subscription is registered and the poll interval runs.
C32_AsClaimed ==
  (NoStartPending /\ InFlight("unwatch") = {}) =>
     (isWatching <=> (subs # {} /\ intervals # {}))

\* C33: the content shown never regresses under overlapping reloads.  When
\* the read of a handleFileChange call completes after the read of a later
\* call has completed, it leaves rawContent and the rendered content as the
\* later read has set them.
C33_AsClaimed ==
  [][\A o \in InFlight("read") :
       (/\ Completes(o)
        /\ \E j \in o.k + 1..Len(cbLog) :
             /\ cbLog[j].type = "modified"
             /\ \A q \in InFlight("read") : q.k # j)
         => rawContent' = rawContent /\ rendered' = rendered]_vars

\* C34: a manual reload is independent of the watcher and keeps the baseline
\* of the comparison consistent.  A step of reloadCurrentFile, in whatever
\* state the watcher is, changes no state of the watcher, no timer and no
\* subscription; when its read succeeds, rawContent and the rendered content
\* both become the content read; and after every step rawContent is the
\* content last rendered.
C34_ManualReload ==
  [][/\ \A o \in InFlight("reload") :
          Completes(o) =>
              /\ UNCHANGED <<engineVars, timeouts, intervals, subs>>
              /\ LET res == Answer(o, ReadOf(o.p))
               IN (res.st = "ok") => (rawContent' = res.v /\ rendered' = res.v)
    /\ (\E p \in Paths : <<"reload", p>> \in did') =>
         UNCHANGED <<engineVars, timeouts, intervals, subs, rawContent, rendered>>
    /\ rawContent' = rendered']_vars

\* A manual reload in the error state has put on screen the content written
\* after the file was opened.
C34_Witness ==
  /\ \E v \in Contents : <<"reloaded", v>> \in did /\ rawContent = v /\ rendered = v
  /\ fs[1].exists /\ rawContent = fs[1].content
  /\ nEdits > 0
  /\ watcherError # "none" /\ ~isWatching

\* The callback of the single-channel watcher has been invoked by timers that
\* the last event before had armed, Debounce steps of the clock after that
\* event or later, and once for that event.
TrailingOnce ==
  \A i \in 1..Len(single.calls) :
    /\ single.calls[i].h = single.calls[i].events
    /\ single.calls[i].gap = Debounce
    /\ \A j \in 1..Len(single.calls) : j # i => single.calls[j].events # single.calls[i].events

\* C35: the single-channel watcher invokes the callback from the debounce
\* timer only, DEBOUNCE_MS after the last event of a burst and at most once
\* per burst, and never after stopWatching has returned, also when an event
\* arrives while stopWatching awaits unwatchFn().
C35_AsClaimed ==
  /\ TrailingOnce
  /\ \A i \in 1..Len(single.calls) : ~single.calls[i].stopped

\* The index is 0 when there is no match and the index of a match otherwise,
\* and no match but the current one carries the active class.
MatchIndexInRange ==
  /\ matches = <<>> => currentMatchIndex = 0
  /\ matches # <<>> => currentMatchIndex \in 0..Len(matches) - 1
  /\ \A i \in 1..Len(matches) : matches[i].active => i = currentMatchIndex + 1

\* C36: after any sequence of performSearch, nextMatch, prevMatch,
\* clearHighlights and closeSearch, currentMatchIndex is 0 when matches is
\* empty and 0 <= currentMatchIndex < matches.length otherwise; at most one
\* match carries the active class, and it is matches[currentMatchIndex];
\* nextMatch and prevMatch with no matches change nothing.
C36_MatchIndex ==
  /\ []MatchIndexInRange
  /\ [][((did' = {<<"nextMatch", currentMatchIndex>>}
            \/ did' = {<<"prevMatch", currentMatchIndex>>}) /\ matches = <<>>)
          => UNCHANGED searchVars]_vars

\* prevMatch has wrapped from the first match to the last of several, which
\* alone is active.
C36_Witness ==
  /\ did = {<<"prevMatch", 0>>}
  /\ Len(matches) >= 3 /\ currentMatchIndex = Len(matches) - 1
  /\ matches[Len(matches)].active
  /\ \A i \in 1..Len(matches) - 1 : ~matches[i].active

RECURSIVE nextMatches(_, _)
nextMatches(s, k) == IF k = 0 THEN s ELSE nextMatches(nextMatch(s), k - 1)

\* C37: with n >= 1 matches, nextMatch moves the index from i to (i + 1) mod n
\* and prevMatch from i to (i - 1) mod n; prevMatch after nextMatch, and
\* nextMatch after prevMatch, restore the index; n times nextMatch returns to
\* the index it started from.
C37_WrapAndInvert ==
  /\ [](Len(matches) >= 1 =>
         /\ prevMatch(nextMatch(SearchWorld)).currentMatchIndex = currentMatchIndex
         /\ nextMatch(prevMatch(SearchWorld)).currentMatchIndex = currentMatchIndex
         /\ nextMatches(SearchWorld, Len(matches)).currentMatchIndex = currentMatchIndex)
  /\ [][Len(matches) >= 1 =>
          /\ did' = {<<"nextMatch", currentMatchIndex>>} =>
                currentMatchIndex' = (IF currentMatchIndex = Len(matches) - 1
                                      THEN 0 ELSE currentMatchIndex + 1)
          /\ did' = {<<"prevMatch", currentMatchIndex>>} =>
                currentMatchIndex' = (IF currentMatchIndex = 0
                                      THEN Len(matches) - 1 ELSE currentMatchIndex - 1)]_vars

\* nextMatch has wrapped from the last of three matches to the first.
C37_Witness ==
  /\ did = {<<"nextMatch", 2>>}
  /\ Len(matches) = 3 /\ currentMatchIndex = 0 /\ matches[1].active

=============================================================================
